---- MODULE Spec2Model ----
(***************************************************************************)
(* TwitchClient (src/src/clients/twitch.py): one client instance, the      *)
(* coroutines that enter and leave it as an async context manager, and the *)
(* coroutines that call its methods.  Every action is the code between two *)
(* suspension points (an await on the HTTP transport or on the download    *)
(* thread) of one coroutine; the event loop interleaves the actions.       *)
(***************************************************************************)
EXTENDS Integers, Sequences, FiniteSets, TLC

\* Number of coroutines that run `async with client:` on the instance.
MaxSessions == 2
\* Number of coroutines that call a method of the instance.
MaxCalls == 1

Sessions == 1 .. MaxSessions
Calls == 1 .. MaxCalls

\* None for the two optional fields.  Entries are numbered in the order they
\* happen, calls in the order they start; a handle or a token is named by the
\* entry that created it.
NoValue == 0

\* The `limit` arguments tried on list_recent_vods: negative, zero, the cap, above it.
Limits == {-3, 0, 100, 101}

\* Optional timecodes: <<>> is None, <<s>> is the string s.
Absent == <<>>
StartTimes == {Absent, <<"">>, <<"0:1:00">>}
EndTimes == {Absent, <<"">>, <<"0:1:30">>}
VideoIds == {"2101", "2102"}
OutputPaths == {"clip.mp4"}

\* What the transport answers to a request, and how a download ends.
TokenResponses == {"ok", "http_error"}
LookupResponses == {"ok", "http_error", "empty"}
ListResponses == {"ok", "http_error"}
DownloadOutcomes == {"ok", "DownloadError"}
\* exc_type handed to __aexit__: the block returned, raised, or was cancelled.
ExcTypes == {"None", "Exception", "CancelledError"}

VARIABLES
    _client,      \* self._client: the handle held, or NoValue
    _auth_token,  \* self._auth_token: the token held, or NoValue
    yt_dlp,       \* TRUE when the module-level name yt_dlp is a module, FALSE when it is None
    opened,       \* handles created by httpx.AsyncClient(...)
    closed,       \* handles on which aclose() was called
    sess,         \* per `async with` coroutine: its position
    call          \* per calling coroutine: its position, locals, the request or
                  \* download it awaits, and its result

vars == <<_client, _auth_token, yt_dlp, opened, closed, sess, call>>

----------------------------------------------------------------------------
\* Pure helpers of the code.

Min(a, b) == IF a < b THEN a ELSE b
Max(a, b) == IF a > b THEN a ELSE b

\* A mutation of ClampFirst: the lower clamp is forgotten.
ClampFirstNoFloor(limit) == Min(limit, 100)

\* list_recent_vods, the "first" parameter: max(1, min(limit, 100)).
ClampFirst(limit) == Max(1, Min(limit, 100))

\* Python truthiness of a `str | None` argument.
Truthy(t) == t # Absent /\ t[1] # ""

\* dict operations.
Put(d, k, v) == [x \in (DOMAIN d) \cup {k} |-> IF x = k THEN v ELSE d[x]]
Pop(d, k) == [x \in (DOMAIN d) \ {k} |-> d[x]]
SetDefault(d, k, v) == IF k \in DOMAIN d THEN d ELSE Put(d, k, v)

\* _get_headers: the two headers built from the client id and the token.
GetHeaders(token) == [ClientID |-> "client_id", Authorization |-> <<"Bearer", token>>]

\* The parameters of _download_media after self; none has a default.
DownloadMediaParams ==
    {"video_id", "output_path", "start_time", "end_time", "base_ydl_opts"}

\* The keywords download_vod and download_vod_audio pass to _download_media.
DownloadKeywords ==
    {"video_id", "output_path", "start_time", "end_time", "media_type_log",
     "base_ydl_opts"}

\* Python's binding of a keyword-only call: every keyword names a parameter
\* and every parameter without default is given; otherwise TypeError.
Binds(params, keywords) == keywords \subseteq params /\ params \subseteq keywords

\* ydl_opts of download_vod.
VodOpts ==
    Put([format |-> "bestvideo[protocol=m3u8_native]+bestaudio[protocol=m3u8_native]/best[protocol=m3u8_native]"],
        "overwrites", TRUE)

\* ydl_opts of download_vod_audio.
AudioOpts ==
    Put(Put([format |-> "bestaudio[protocol=m3u8_native]/bestaudio"],
            "postprocessors",
            <<[key |-> "FFmpegExtractAudio", preferredcodec |-> "m4a"]>>),
        "overwrites", TRUE)

\* Base configurations handed to _download_media: the two above, each with
\* a 'download_sections' entry, and each with a 'logger' of the caller's.
BaseOptions ==
    {VodOpts, AudioOpts,
     Put(VodOpts, "download_sections", "*0:00-0:30"),
     Put(AudioOpts, "download_sections", "*0:00-0:30"),
     Put(VodOpts, "logger", "CallerLogger"),
     Put(AudioOpts, "logger", "CallerLogger")}

\* _download_media, line 216.
VideoUrl(video_id) == "https://www.twitch.tv/videos/" \o video_id

\* _download_media, lines 223-227: input_args.
InputArgs(start_time, end_time) ==
    (IF Truthy(start_time) THEN <<"-ss", start_time[1]>> ELSE <<>>)
        \o (IF Truthy(end_time) THEN <<"-to", end_time[1]>> ELSE <<>>)

\* A mutation of DownloadMediaOpts: 'download_sections' is not popped.
DownloadMediaOptsKeepsSections(output_path, start_time, end_time, base_ydl_opts) ==
    LET ydl_opts == Put(base_ydl_opts, "outtmpl", output_path)
    IN  IF Truthy(start_time) \/ Truthy(end_time)
        THEN Put(Put(ydl_opts, "external_downloader", "ffmpeg"),
                 "external_downloader_args",
                 [ffmpeg_i |-> InputArgs(start_time, end_time),
                  default |-> <<"-loglevel", "info">>])
        ELSE ydl_opts

\* _download_media, lines 218-237: the ydl_opts handed to _download_with_yt_dlp.
DownloadMediaOpts(output_path, start_time, end_time, base_ydl_opts) ==
    LET ydl_opts == Put(base_ydl_opts, "outtmpl", output_path)
    IN  IF Truthy(start_time) \/ Truthy(end_time)
        THEN Pop(Put(Put(ydl_opts, "external_downloader", "ffmpeg"),
                     "external_downloader_args",
                     [ffmpeg_i |-> InputArgs(start_time, end_time),
                      default |-> <<"-loglevel", "info">>]),
                 "download_sections")
        ELSE ydl_opts

\* _download_with_yt_dlp, lines 194-195: the options YoutubeDL is built with.
YoutubeDLOpts(ydl_opts) ==
    Put(SetDefault(ydl_opts, "logger", "YtdlpLogger"), "verbose", TRUE)

----------------------------------------------------------------------------
\* State.

IdleSession == [pc |-> "idle"]

\* No `async with` block of the instance is entered: every one is before its
\* entry or after its exit.
OutsideSession == \A s \in Sessions : sess[s].pc \in {"idle", "exited"}

\* The instance holds a handle and a token.
InSession == _client # NoValue /\ _auth_token # NoValue

\* One HTTP request as issued, kept while its response is awaited: the
\* handle it is sent on, the headers it carries, whether the instance is in a session at that moment and whether
\* the session that obtained the token has exited by then.
Request(kind, via, headers, limit, first) ==
    [kind |-> kind, via |-> via, token |-> headers.Authorization[2],
     limit |-> limit, first |-> first,
     inSession |-> InSession,
     tokenExited |-> sess[headers.Authorization[2]].pc = "exited"]

NoRequest ==
    [kind |-> "none", via |-> NoValue, token |-> NoValue, limit |-> 0,
     first |-> NoValue, inSession |-> FALSE, tokenExited |-> FALSE]

\* One downloader invocation, kept while the download thread runs:
\* YoutubeDL(opts).download([url]), with the
\* arguments of the _download_media call that made it and whether the
\* instance is in a session at that moment.
Invocation(url, opts, video_id, output_path, start_time, end_time, base_ydl_opts) ==
    [url |-> url, opts |-> opts, video_id |-> video_id, output_path |-> output_path,
     start_time |-> start_time, end_time |-> end_time, base |-> base_ydl_opts,
     inSession |-> InSession]

NoInvocation ==
    [url |-> "", opts |-> <<>>, video_id |-> "", output_path |-> "",
     start_time |-> Absent,
     end_time |-> Absent, base |-> <<>>, inSession |-> FALSE]

\* A coroutine frame: client, headers and limit are the locals of
\* list_recent_vods; req is the request it awaits the response of, inv the
\* downloader invocation it awaits the end of; nreq and ninv count the
\* requests and invocations it has made.  The locals go when the call ends.
IdleCall ==
    [pc |-> "idle", method |-> "none", outside |-> FALSE,
     limit |-> 0, client |-> NoValue, headers |-> GetHeaders(NoValue),
     req |-> NoRequest, inv |-> NoInvocation,
     nreq |-> 0, ninv |-> 0, result |-> "none"]

Init ==
    /\ _client = NoValue
    /\ _auth_token = NoValue
    /\ yt_dlp = TRUE
    /\ opened = {}
    /\ closed = {}
    /\ sess = [s \in Sessions |-> IdleSession]
    /\ call = [c \in Calls |-> IdleCall]

----------------------------------------------------------------------------
\* Session entry and exit.

\* __aenter__ up to the await of the token request: the handle is created
\* and stored, _authenticate passes _assert_client and posts.
AEnter(s) ==
    /\ sess[s].pc = "idle"
    /\ \A r \in Sessions : r < s => sess[r].pc # "idle"
    /\ _client' = s
    /\ opened' = opened \cup {s}
    /\ sess' = [sess EXCEPT ![s].pc = "auth"]
    /\ UNCHANGED <<_auth_token, yt_dlp, closed, call>>

\* The token response arrives: raise_for_status raises out of __aenter__, or
\* the token is stored and the block is entered.
AuthResponse(s, resp) ==
    /\ sess[s].pc = "auth"
    /\ IF resp = "ok"
       THEN /\ _auth_token' = s
            /\ sess' = [sess EXCEPT ![s].pc = "active"]
       ELSE /\ sess' = [sess EXCEPT ![s].pc = "failed"]
            /\ UNCHANGED _auth_token
    /\ UNCHANGED <<_client, yt_dlp, opened, closed, call>>

\* __aexit__ up to the await of aclose(); with no handle held there is no
\* await and both fields are reset at once.  exc_type is not read.
AExit(s, exc) ==
    /\ sess[s].pc = "active"
    /\ IF _client # NoValue
       THEN /\ closed' = closed \cup {_client}
            /\ sess' = [sess EXCEPT ![s].pc = "closing"]
            /\ UNCHANGED <<_client, _auth_token>>
       ELSE /\ _client' = NoValue
            /\ _auth_token' = NoValue
            /\ sess' = [sess EXCEPT ![s].pc = "exited"]
            /\ UNCHANGED closed
    /\ UNCHANGED <<yt_dlp, opened, call>>

\* __aexit__ after aclose() returned: both fields are reset.
AExitFinish(s) ==
    /\ sess[s].pc = "closing"
    /\ _client' = NoValue
    /\ _auth_token' = NoValue
    /\ sess' = [sess EXCEPT ![s].pc = "exited"]
    /\ UNCHANGED <<yt_dlp, opened, closed, call>>

----------------------------------------------------------------------------
\* API calls.

\* The next call to start is c.
Starts(c) ==
    /\ call[c].pc = "idle"
    /\ \A d \in Calls : d < c => call[d].pc # "idle"

\* A call ends in the step it started in: it raised the named error.
Raise(c, method, error) ==
    call' = [call EXCEPT ![c].pc = "done", ![c].method = method,
                         ![c].outside = OutsideSession, ![c].result = error]

\* A call ends after an await: it returned ("ok", "None") or raised.
Finish(c, result) ==
    call' = [call EXCEPT ![c].pc = "done", ![c].result = result,
                         ![c].limit = 0, ![c].client = NoValue,
                         ![c].headers = GetHeaders(NoValue),
                         ![c].req = NoRequest, ![c].inv = NoInvocation]

\* list_recent_vods up to the await of GET /users: _assert_client and
\* _get_headers of list_recent_vods, then those of
\* _get_broadcaster_id_from_name, which read the same fields in the same step.
ListRecentVods(c, limit) ==
    /\ Starts(c)
    /\ IF _client = NoValue
       THEN Raise(c, "list_recent_vods", "NotInitialized")
       ELSE IF _auth_token = NoValue
       THEN Raise(c, "list_recent_vods", "AuthNotSet")
       ELSE call' = [call EXCEPT
                ![c].pc = "await_users",
                ![c].method = "list_recent_vods",
                ![c].outside = OutsideSession,
                ![c].limit = limit,
                ![c].client = _client,
                ![c].headers = GetHeaders(_auth_token),
                ![c].req = Request("users", _client, GetHeaders(_auth_token),
                                   limit, NoValue),
                ![c].nreq = 1]
    /\ UNCHANGED <<_client, _auth_token, yt_dlp, opened, closed, sess>>

\* The /users response arrives; on a user, GET /videos is issued on the local
\* `client` with the local `headers` and the clamped page size.
UsersResponse(c, resp) ==
    /\ call[c].pc = "await_users"
    /\ CASE resp = "http_error" -> Finish(c, "HTTPStatusError")
         [] resp = "empty" -> Finish(c, "ValueError")
         [] OTHER ->
              call' = [call EXCEPT
                  ![c].pc = "await_videos",
                  ![c].req = Request("videos", call[c].client, call[c].headers,
                                     call[c].limit, ClampFirst(call[c].limit)),
                  ![c].nreq = 2]
    /\ UNCHANGED <<_client, _auth_token, yt_dlp, opened, closed, sess>>

\* The /videos response of list_recent_vods arrives.
VideosResponse(c, resp) ==
    /\ call[c].pc = "await_videos"
    /\ Finish(c, IF resp = "ok" THEN "ok" ELSE "HTTPStatusError")
    /\ UNCHANGED <<_client, _auth_token, yt_dlp, opened, closed, sess>>

\* get_vod_thumbnail_url up to the await of GET /videos?id=.
GetVodThumbnailUrl(c) ==
    /\ Starts(c)
    /\ IF _client = NoValue
       THEN Raise(c, "get_vod_thumbnail_url", "NotInitialized")
       ELSE IF _auth_token = NoValue
       THEN Raise(c, "get_vod_thumbnail_url", "AuthNotSet")
       ELSE call' = [call EXCEPT
                ![c].pc = "await_thumbnail",
                ![c].method = "get_vod_thumbnail_url",
                ![c].outside = OutsideSession,
                ![c].req = Request("video", _client, GetHeaders(_auth_token),
                                   0, NoValue),
                ![c].nreq = 1]
    /\ UNCHANGED <<_client, _auth_token, yt_dlp, opened, closed, sess>>

\* The response to get_vod_thumbnail_url's request arrives.
ThumbnailResponse(c, resp) ==
    /\ call[c].pc = "await_thumbnail"
    /\ Finish(c, CASE resp = "http_error" -> "HTTPStatusError"
                   [] resp = "empty" -> "ValueError"
                   [] OTHER -> "ok")
    /\ UNCHANGED <<_client, _auth_token, yt_dlp, opened, closed, sess>>

----------------------------------------------------------------------------
\* Downloads.

\* _download_media and _download_with_yt_dlp up to the await of the download
\* thread: ImportError without yt_dlp, else YoutubeDL is built and download
\* is started on the URL.
DownloadMedia(c, method, video_id, output_path, start_time, end_time, base_ydl_opts) ==
    IF ~yt_dlp
    THEN Raise(c, method, "ImportError")
    ELSE call' = [call EXCEPT
             ![c].pc = "await_download",
             ![c].method = method,
             ![c].outside = OutsideSession,
             ![c].inv = Invocation(
                 VideoUrl(video_id),
                 YoutubeDLOpts(DownloadMediaOpts(output_path, start_time,
                                                 end_time, base_ydl_opts)),
                 video_id, output_path, start_time, end_time, base_ydl_opts),
             ![c].ninv = 1]

\* download_vod / download_vod_audio: the call of _download_media is bound
\* first and raises TypeError when a keyword names no parameter.
Download(c, method, base_ydl_opts, video_id, output_path, start_time, end_time) ==
    /\ Starts(c)
    /\ IF Binds(DownloadMediaParams, DownloadKeywords)
       THEN DownloadMedia(c, method, video_id, output_path, start_time,
                          end_time, base_ydl_opts)
       ELSE Raise(c, method, "TypeError")
    /\ UNCHANGED <<_client, _auth_token, yt_dlp, opened, closed, sess>>

DownloadVod(c, video_id, output_path, start_time, end_time) ==
    Download(c, "download_vod", VodOpts, video_id, output_path, start_time, end_time)

DownloadVodAudio(c, video_id, output_path, start_time, end_time) ==
    Download(c, "download_vod_audio", AudioOpts, video_id, output_path,
             start_time, end_time)

\* _download_media called as the method it is, with positional arguments.
DownloadMediaCall(c, video_id, output_path, start_time, end_time, base_ydl_opts) ==
    /\ Starts(c)
    /\ DownloadMedia(c, "_download_media", video_id, output_path, start_time,
                     end_time, base_ydl_opts)
    /\ UNCHANGED <<_client, _auth_token, yt_dlp, opened, closed, sess>>

\* The download thread ends: the call returns None, or prints and re-raises.
DownloadFinish(c, outcome) ==
    /\ call[c].pc = "await_download"
    /\ Finish(c, IF outcome = "ok" THEN "None" ELSE outcome)
    /\ UNCHANGED <<_client, _auth_token, yt_dlp, opened, closed, sess>>

----------------------------------------------------------------------------
\* The client under its sessions and its public methods; the downloads are
\* called with the defaults of start_time and end_time.

Next ==
    \/ \E s \in Sessions : AEnter(s)
    \/ \E s \in Sessions, resp \in TokenResponses : AuthResponse(s, resp)
    \/ \E s \in Sessions, exc \in ExcTypes : AExit(s, exc)
    \/ \E s \in Sessions : AExitFinish(s)
    \/ \E c \in Calls, limit \in Limits : ListRecentVods(c, limit)
    \/ \E c \in Calls, resp \in LookupResponses : UsersResponse(c, resp)
    \/ \E c \in Calls, resp \in ListResponses : VideosResponse(c, resp)
    \/ \E c \in Calls : GetVodThumbnailUrl(c)
    \/ \E c \in Calls, resp \in LookupResponses : ThumbnailResponse(c, resp)
    \/ \E c \in Calls, v \in VideoIds, o \in OutputPaths :
          DownloadVod(c, v, o, Absent, Absent)
    \/ \E c \in Calls, v \in VideoIds, o \in OutputPaths :
          DownloadVodAudio(c, v, o, Absent, Absent)

Spec == Init /\ [][Next]_vars

\* The download path alone, with the downloader present or not:
\* _download_media is called directly as well as through the public methods.
MediaInit ==
    /\ _client = NoValue
    /\ _auth_token = NoValue
    /\ yt_dlp \in BOOLEAN
    /\ opened = {}
    /\ closed = {}
    /\ sess = [s \in Sessions |-> IdleSession]
    /\ call = [c \in Calls |-> IdleCall]

MediaNext ==
    \/ \E c \in Calls, v \in VideoIds, o \in OutputPaths, st \in StartTimes, en \in EndTimes :
          DownloadVod(c, v, o, st, en)
    \/ \E c \in Calls, v \in VideoIds, o \in OutputPaths, st \in StartTimes, en \in EndTimes :
          DownloadVodAudio(c, v, o, st, en)
    \/ \E c \in Calls, v \in VideoIds, o \in OutputPaths, st \in StartTimes, en \in EndTimes,
          b \in BaseOptions : DownloadMediaCall(c, v, o, st, en, b)
    \/ \E c \in Calls, outcome \in DownloadOutcomes : DownloadFinish(c, outcome)

MediaSpec == MediaInit /\ [][MediaNext]_vars

----------------------------------------------------------------------------
\* Properties.

Requests == {call[c].req : c \in Calls} \ {NoRequest}
Invocations == {call[c].inv : c \in Calls} \ {NoInvocation}
PublicDownloads == {"download_vod", "download_vod_audio"}

\* C1: when a session that was entered exits, the handle opened at its
\* entry has been closed and the instance holds neither handle nor token.
C1_ExitReleasesOwnHandle ==
    [][\A s \in Sessions :
          (sess[s].pc # "exited" /\ sess'[s].pc = "exited")
              => (s \in closed' /\ _client' = NoValue /\ _auth_token' = NoValue)]_vars

\* C2: a public method called while no session is entered raises the
\* not-initialized error and issues no request and no downloader invocation.
C2_OutsideCallsNotInitialized ==
    \A c \in Calls :
        (call[c].pc # "idle" /\ call[c].outside)
            => /\ call[c].pc = "done"
               /\ call[c].result = "NotInitialized"
               /\ call[c].nreq = 0
               /\ call[c].ninv = 0

\* C3: every request and every downloader invocation is issued while the
\* instance holds both a handle and a token.
C3_IssuedOnlyInSession ==
    /\ \A r \in Requests : r.inSession
    /\ \A i \in Invocations : i.inSession

\* C4: when the token request of an entry fails, the handle that entry
\* opened is closed and the instance holds neither handle nor token.
C4_FailedEntryLeavesNothing ==
    [][\A s \in Sessions :
          (sess[s].pc = "auth" /\ sess'[s].pc = "failed")
              => (s \in closed' /\ _client' = NoValue /\ _auth_token' = NoValue)]_vars

\* C5: with the downloader present, download_vod and download_vod_audio
\* invoke it exactly once, on https://www.twitch.tv/videos/<video_id> with
\* the given output path, and end by returning None or by raising the
\* downloader's error.
C5_DownloadInvokesOnce ==
    \A c \in Calls :
        (yt_dlp /\ call[c].method \in PublicDownloads)
            => /\ call[c].ninv = 1
               /\ call[c].pc = "await_download"
                    => /\ call[c].inv.url = "https://www.twitch.tv/videos/" \o call[c].inv.video_id
                       /\ call[c].inv.opts["outtmpl"] = call[c].inv.output_path
               /\ call[c].pc = "done" => call[c].result \in {"None", "DownloadError"}

\* C6: no request carries the token of a session that has exited.
C6_NoTokenOfExitedSession == \A r \in Requests : ~r.tokenExited

\* C7: for start and end timecodes each absent or non-empty, the options the
\* downloader is built with name ffmpeg, carry exactly the flags of the
\* supplied timecodes and the fixed output flags, and hold no
\* 'download_sections' when a timecode is supplied; with neither supplied
\* they name no backend and keep the base's 'download_sections' as it was.
C7_DownloadConfig ==
    \A i \in Invocations :
        LET st == i.start_time
            en == i.end_time
            o == i.opts
            Supplied(t) == t # Absent
        IN  ((st = Absent \/ st[1] # "") /\ (en = Absent \/ en[1] # ""))
            => IF Supplied(st) \/ Supplied(en)
               THEN /\ {"external_downloader", "external_downloader_args"} \subseteq DOMAIN o
                    /\ o["external_downloader"] = "ffmpeg"
                    /\ o["external_downloader_args"].ffmpeg_i =
                          CASE Supplied(st) /\ Supplied(en) -> <<"-ss", st[1], "-to", en[1]>>
                            [] Supplied(st) /\ ~Supplied(en) -> <<"-ss", st[1]>>
                            [] OTHER -> <<"-to", en[1]>>
                    /\ o["external_downloader_args"].default = <<"-loglevel", "info">>
                    /\ "download_sections" \notin DOMAIN o
               ELSE /\ "external_downloader" \notin DOMAIN o
                    /\ "external_downloader_args" \notin DOMAIN o
                    /\ ("download_sections" \in DOMAIN o) = ("download_sections" \in DOMAIN i.base)
                    /\ "download_sections" \in DOMAIN o
                          => o["download_sections"] = i.base["download_sections"]

\* C7, its case: an invocation with only a start timecode, from a base
\* configuration that holds 'download_sections'.
C7_Witness ==
    \E i \in Invocations :
        /\ i.start_time = <<"0:1:00">>
        /\ i.end_time = Absent
        /\ "download_sections" \in DOMAIN i.base
        /\ i.opts["external_downloader"] = "ffmpeg"

\* C8: the 'first' parameter of the videos request of list_recent_vods is
\* the limit clamped to 1..100.
C8_PageSizeClamped ==
    \A r \in Requests :
        r.kind = "videos"
            => /\ r.first \in 1 .. 100
               /\ r.limit < 1 => r.first = 1
               /\ r.limit > 100 => r.first = 100
               /\ r.limit \in 1 .. 100 => r.first = r.limit

\* C8, its case: a videos request for a limit above 100, sent with first = 100.
C8_Witness ==
    \E r \in Requests : r.kind = "videos" /\ r.limit > 100 /\ r.first = 100

\* C9: no call passes _assert_client and then raises the 'auth token is not
\* set' error of _get_headers.
C9_AuthNotSetUnreachable == \A c \in Calls : call[c].result # "AuthNotSet"

\* C10: with every entry successful, at most one handle is open whenever no
\* entry or exit is under way, and none once every session has exited.
C10_NoHandleLeak ==
    (\A s \in Sessions : sess[s].pc \in {"idle", "active", "exited"})
        => /\ Cardinality(opened \ closed) <= 1
           /\ (\A s \in Sessions : sess[s].pc = "exited") => opened \subseteq closed
====
